---------------------------- MODULE Spec2Model ----------------------------
(***************************************************************************)
(* Model of src/search-aws-icons.tsx: the icon catalog loader              *)
(* (loadIconsData, extractIconData, getTypeFromCategory) and the Command   *)
(* component that mounts, loads the catalog once, renders the grid and     *)
(* copies an icon file to the clipboard (copyIconToClipboard).             *)
(*                                                                         *)
(* A string is a sequence of one-character strings, so that split, join,   *)
(* trim, startsWith and includes are computed as the code computes them.   *)
(* A run of characters that no operation of the program ever looks into    *)
(* (the extension's own directory, the asset package's directory name) is  *)
(* kept as one element.                                                    *)
(***************************************************************************)
EXTENDS Naturals, Sequences, FiniteSets

VARIABLES
    manifest,      \* find.txt on disk: its text
    pc,            \* position of fetchIcons/loadIconsData
    items,         \* loadIconsData: const items
    idx,           \* loadIconsData: index in items of the entry being stat'ed
    licons,        \* loadIconsData: const icons (the array being built)
    statLog,       \* history: what fs.stat answered for each entry of items
    loadErr,       \* history: the await of loadIconsData that threw
    outcome,       \* the promise of loadIconsData: pending, resolved, rejected
    result,        \* the value the promise resolved with
    icons,         \* Command: useState icons
    isLoading,     \* Command: useState isLoading
    error,         \* Command: useState error
    needsRender,   \* a render of Command is due (mount, or a state change)
    renders,       \* history: renders of Command so far
    effectPending, \* the useEffect callback is scheduled
    loadStarts,    \* history: calls of fetchIcons
    setIconsCalls, \* history: calls of setIcons
    view,          \* what Command returned last: none, grid, error
    grid,          \* the Grid.Items rendered last
    errorToasts,   \* history: failure toasts shown by the render's error branch
    ops,           \* calls of copyIconToClipboard, in click order
    clipboard      \* the file on the system clipboard

loaderVars == <<manifest, pc, items, idx, licons, statLog, loadErr, outcome, result>>
viewVars == <<icons, isLoading, error, needsRender, renders, effectPending,
              loadStarts, setIconsCalls, view, grid, errorToasts>>
copyVars == <<ops, clipboard>>
vars == <<loaderVars, viewVars, copyVars>>

--------------------------------------------------------------------------
(* Bounds of the model *)

\* lines of find.txt
MaxItems == 2
\* copy actions triggered in one session
MaxClicks == 3

--------------------------------------------------------------------------
(* String operations of JavaScript and node used by the program *)

NL == "\n"
Whitespace == {" ", "\t", "\n", "\r"}

RECURSIVE Split(_, _)
\* String.prototype.split with a one-character separator
Split(s, sep) ==
    IF \A i \in 1..Len(s) : s[i] # sep
    THEN <<s>>
    ELSE LET i == CHOOSE k \in 1..Len(s) :
                      s[k] = sep /\ \A j \in 1..(k - 1) : s[j] # sep
         IN  <<SubSeq(s, 1, i - 1)>> \o Split(SubSeq(s, i + 1, Len(s)), sep)

RECURSIVE Join(_, _)
\* Array.prototype.join with a one-character separator
Join(parts, sep) ==
    IF parts = <<>> THEN <<>>
    ELSE IF Len(parts) = 1 THEN parts[1]
    ELSE parts[1] \o <<sep>> \o Join(Tail(parts), sep)

RECURSIVE Trim(_)
\* String.prototype.trim
Trim(s) ==
    IF s = <<>> THEN s
    ELSE IF s[1] \in Whitespace THEN Trim(Tail(s))
    ELSE IF s[Len(s)] \in Whitespace THEN Trim(SubSeq(s, 1, Len(s) - 1))
    ELSE s

\* String.prototype.startsWith
StartsWith(s, prefix) ==
    Len(s) >= Len(prefix) /\ SubSeq(s, 1, Len(prefix)) = prefix

\* String.prototype.includes: case-sensitive substring containment
Includes(s, sub) ==
    \E i \in 1..(Len(s) + 1) :
        i + Len(sub) - 1 <= Len(s) /\ SubSeq(s, i, i + Len(sub) - 1) = sub

\* Array.prototype.includes
ArrayIncludes(arr, x) == \E i \in 1..Len(arr) : arr[i] = x

RECURSIVE Normalize(_, _)
\* path.normalize on the segments of an absolute path: "" and "." are
\* dropped, ".." removes the segment before it
Normalize(segs, acc) ==
    IF segs = <<>> THEN acc
    ELSE LET h == segs[1]
         IN  IF h = <<>> \/ h = <<".">> THEN Normalize(Tail(segs), acc)
             ELSE IF h = <<".", ".">>
                  THEN Normalize(Tail(segs),
                                 IF acc = <<>> THEN acc
                                 ELSE SubSeq(acc, 1, Len(acc) - 1))
                  ELSE Normalize(Tail(segs), Append(acc, h))

\* path.join(a, b) for an absolute a: a + "/" + b, normalized; a trailing
\* separator is kept
PathJoin(a, b) ==
    LET joined == a \o <<"/">> \o b
        segs == Normalize(Split(joined, "/"), <<>>)
        trail == IF segs # <<>> /\ joined[Len(joined)] = "/" THEN <<"/">> ELSE <<>>
    IN  <<"/">> \o Join(segs, "/") \o trail

--------------------------------------------------------------------------
(* Constants of the program *)

ASSET_DIR == <<"Asset-Package_06072024.b5d9f0b1179c4a995a3f1e42042defabb0ba0fd2">>

\* path.join(__dirname, "assets", ASSET_DIR)
baseDir == PathJoin(PathJoin(<<"/", "__dirname">>, <<"a", "s", "s", "e", "t", "s">>),
                    ASSET_DIR)

NoIcon == [name |-> <<>>, category |-> <<>>, type |-> "null",
           formats |-> <<>>, path |-> <<>>]

--------------------------------------------------------------------------
(* getTypeFromCategory *)

ARCH == <<"A", "r", "c", "h">>
RES == <<"R", "e", "s">>
CAT == <<"C", "a", "t">>

\* fault variant: "Res" is tested before "Arch"
getTypeFromCategoryResFirst(category) ==
    IF Includes(category, RES) THEN "Resource"
    ELSE IF Includes(category, ARCH) THEN "Architecture"
    ELSE IF Includes(category, CAT) THEN "Category"
    ELSE "Architecture Group"

getTypeFromCategory(category) ==
    IF Includes(category, ARCH) THEN "Architecture"
    ELSE IF Includes(category, RES) THEN "Resource"
    ELSE IF Includes(category, CAT) THEN "Category"
    ELSE "Architecture Group"

--------------------------------------------------------------------------
(* extractIconData *)

\* fault variant: paths of 2 segments are accepted
extractIconDataTwoParts(item, itemPath) ==
    LET parts == Split(item, "/")
    IN  IF Len(parts) < 2 THEN [icon |-> NoIcon, format |-> <<>>]
        ELSE
        LET category == parts[2]
            filename == parts[Len(parts)]
            nameParts == Split(filename, ".")
            format == nameParts[Len(nameParts)]
            name == Join(SubSeq(nameParts, 1, Len(nameParts) - 1), ".")
        IN  IF format = <<>> \/ name = <<>>
            THEN [icon |-> NoIcon, format |-> <<>>]
            ELSE [icon |-> [name |-> name, category |-> category,
                            type |-> getTypeFromCategory(category),
                            formats |-> <<>>, path |-> itemPath],
                  format |-> format]

extractIconData(item, itemPath) ==
    LET parts == Split(item, "/")
    IN  IF Len(parts) < 3 THEN [icon |-> NoIcon, format |-> <<>>]
        ELSE
        LET category == parts[2]
            filename == parts[Len(parts)]
            nameParts == Split(filename, ".")
            \* nameParts.pop(), then nameParts.join(".")
            format == nameParts[Len(nameParts)]
            name == Join(SubSeq(nameParts, 1, Len(nameParts) - 1), ".")
        IN  IF format = <<>> \/ name = <<>>
            THEN [icon |-> NoIcon, format |-> <<>>]
            ELSE [icon |-> [name |-> name, category |-> category,
                            type |-> getTypeFromCategory(category),
                            formats |-> <<>>, path |-> itemPath],
                  format |-> format]

--------------------------------------------------------------------------
(* loadIconsData: the body of the for loop for an entry that is a file *)

\* icons.find(i => i.name === icon.name && i.category === icon.category
\*                 && i.type === icon.type): the index of the first match, 0 for none
FindExisting(arr, icon) ==
    LET hits == {i \in 1..Len(arr) : /\ arr[i].name = icon.name
                                     /\ arr[i].category = icon.category
                                     /\ arr[i].type = icon.type}
    IN  IF hits = {} THEN 0 ELSE CHOOSE i \in hits : \A j \in hits : i <= j

\* fault variant: the format is pushed without the includes test
AddFormatAlways(arr, k, format) ==
    [arr EXCEPT ![k].formats = Append(@, format)]

\* if (!existingIcon.formats.includes(format)) existingIcon.formats.push(format)
AddFormat(arr, k, format) ==
    IF ArrayIncludes(arr[k].formats, format) THEN arr
    ELSE [arr EXCEPT ![k].formats = Append(@, format)]

\* fault variant: unshift in place of push
PushIconFront(arr, icon, format) ==
    <<[icon EXCEPT !.formats = Append(@, format)]>> \o arr

\* icon.formats.push(format); icons.push(icon)
PushIcon(arr, icon, format) ==
    Append(arr, [icon EXCEPT !.formats = Append(@, format)])

ProcessFile(arr, item, itemPath) ==
    LET e == extractIconData(item, itemPath)
    IN  IF e.icon = NoIcon THEN arr
        ELSE LET k == FindExisting(arr, e.icon)
             IN  IF k # 0 THEN AddFormat(arr, k, e.format)
                 ELSE PushIcon(arr, e.icon, e.format)

\* the for loop runs on to the next entry that starts with ".": the index
\* of that entry, Len(its) + 1 when there is none
NextDot(its, from) ==
    LET dots == {k \in from..Len(its) : StartsWith(its[k], <<".">>)}
    IN  IF dots = {} THEN Len(its) + 1
        ELSE CHOOSE k \in dots : \A j \in dots : k <= j

\* listFileContent.split("\n").filter(item => item.trim() !== "")
ManifestItems(content) ==
    SelectSeq(Split(content, NL), LAMBDA item : Trim(item) # <<>>)

--------------------------------------------------------------------------
(* The manifests the model loads *)

PNG == <<"p", "n", "g">>
SVG == <<"s", "v", "g">>
EC2 == <<"A", "m", "a", "z", "o", "n", "-", "E", "C", "2">>
ResCompute == RES \o <<"_", "C", "o", "m", "p", "u", "t", "e">>
ArchGroup1 == ARCH \o <<"-", "G", "r", "o", "u", "p", "-", "1">>
ArchResCat == ARCH \o RES \o CAT
ResCat == RES \o CAT
archGroup == <<"a", "r", "c", "h", "-", "G", "r", "o", "u", "p">>

Entry(segments) == <<".", "/">> \o Join(segments, "/")

\* ./Res_Compute/Amazon-EC2.png and its svg, and the png again one folder deeper
LineEc2Png == Entry(<<ResCompute, EC2 \o <<".">> \o PNG>>)
LineEc2Svg == Entry(<<ResCompute, EC2 \o <<".">> \o SVG>>)
LineEc2Png48 == Entry(<<ResCompute, <<"4", "8">>, EC2 \o <<".">> \o PNG>>)
\* one entry per kind of category
LineArchGroup == Entry(<<ArchGroup1, <<"a", ".", "p", "n", "g">>>>)
LineArchResCat == Entry(<<ArchResCat, <<"a", ".", "p", "n", "g">>>>)
LineResCat == Entry(<<ResCat, <<"a", ".", "p", "n", "g">>>>)
LineCat == Entry(<<CAT, <<"a", ".", "b", ".", "s", "v", "g">>>>)
LineLower == Entry(<<archGroup, <<"a", ".", "p", "n", "g">>>>)
\* two segments; a filename without a name; a filename without a format
LineShallow == Entry(<<<<"a", ".", "p", "n", "g">>>>)
LineNoName == Entry(<<CAT, PNG>>)
LineNoFormat == Entry(<<CAT, <<"a", ".">>>>)
\* an entry without the leading "."; a line of white space
LineNoDot == Join(<<CAT, <<"a", ".", "p", "n", "g">>>>, "/")
LineBlank == <<" ">>

Lines == {LineEc2Png, LineEc2Svg, LineEc2Png48, LineArchGroup, LineArchResCat,
          LineResCat, LineCat, LineLower, LineShallow, LineNoName, LineNoFormat,
          LineNoDot, LineBlank}

RECURSIVE Text(_)
\* the text of a file holding these lines, each ended by a newline
Text(ls) == IF ls = <<>> THEN <<>> ELSE ls[1] \o <<NL>> \o Text(Tail(ls))

Manifests == {Text(ls) : ls \in UNION {[1..n -> Lines] : n \in 0..MaxItems}}

\* the manifests of the sessions in which icons are copied
UIManifests == {Text(ls) : ls \in {<<>>, <<LineEc2Png>>, <<LineEc2Png, LineEc2Svg>>,
                                   <<LineEc2Png, LineArchGroup>>,
                                   <<LineArchGroup, LineShallow>>,
                                   <<LineNoDot, LineEc2Svg>>, <<LineBlank>>}}

--------------------------------------------------------------------------
(* Command: mount, render, the effect *)

TitleMax == 20

\* truncate
truncate(str, maxLength) ==
    IF Len(str) <= maxLength THEN str
    ELSE SubSeq(str, 1, maxLength) \o <<".", ".", ".">>

\* the Grid.Item of one icon
GridItem(icon) ==
    [key |-> <<icon.type, icon.name, icon.category>>,
     source |-> icon.path,
     tooltip |-> <<icon.name, icon.type>>,
     title |-> truncate(icon.name, TitleMax),
     subtitle |-> <<icon.type, icon.category>>,
     actions |-> {"png", "svg"},
     icon |-> icon]

\* useEffect(..., []): the effect is due after the first render only
EffectDue(n) == n = 0

InitView ==
    /\ pc = "unmounted"
    /\ items = <<>>
    /\ idx = 0
    /\ licons = <<>>
    /\ statLog = <<>>
    /\ loadErr = "none"
    /\ outcome = "pending"
    /\ result = <<>>
    /\ icons = <<>>
    /\ isLoading = TRUE
    /\ error = "null"
    /\ needsRender = TRUE
    /\ renders = 0
    /\ effectPending = FALSE
    /\ loadStarts = 0
    /\ setIconsCalls = 0
    /\ view = "none"
    /\ grid = <<>>
    /\ errorToasts = 0
    /\ ops = <<>>
    /\ clipboard = <<>>

InitLoad == manifest \in Manifests /\ InitView

Init == manifest \in UIManifests /\ InitView

\* Command(): one render
Render ==
    /\ needsRender
    /\ needsRender' = FALSE
    /\ renders' = renders + 1
    /\ effectPending' = (effectPending \/ EffectDue(renders))
    /\ IF error # "null"
       THEN /\ view' = "error"
            /\ grid' = <<>>
            /\ errorToasts' = errorToasts + 1
       ELSE /\ view' = "grid"
            /\ grid' = [i \in 1..Len(icons) |-> GridItem(icons[i])]
            /\ errorToasts' = errorToasts
    /\ UNCHANGED <<loaderVars, icons, isLoading, error, loadStarts, setIconsCalls,
                   copyVars>>

\* the effect: fetchIcons(), which runs loadIconsData up to await fs.access
RunEffect ==
    /\ effectPending
    /\ effectPending' = FALSE
    /\ loadStarts' = loadStarts + 1
    /\ pc' = "access"
    /\ items' = <<>>
    /\ idx' = 0
    /\ licons' = <<>>
    /\ statLog' = <<>>
    /\ loadErr' = "none"
    /\ outcome' = "pending"
    /\ result' = <<>>
    /\ UNCHANGED <<manifest, icons, isLoading, error, needsRender, renders,
                   setIconsCalls, view, grid, errorToasts, copyVars>>

--------------------------------------------------------------------------
(* loadIconsData *)

\* fault variant: the catch rethrows
LoadCatchRethrow == "rejected"

\* catch (error) { console.error(...) } and then return icons
LoadCatch == "resolved"

\* fault variant: the catch returns a fresh empty list
CatchResultEmpty(arr) == <<>>

\* what return icons returns after the catch: the array as built so far
CatchResult(arr) == arr

\* an await inside the try threw
Thrown(step) ==
    /\ pc' = "returned"
    /\ loadErr' = step
    /\ outcome' = LoadCatch
    /\ result' = IF LoadCatch = "resolved" THEN CatchResult(licons) ELSE <<>>

\* await fs.access(baseDir)
AccessBaseDir ==
    /\ pc = "access"
    /\ \E ok \in BOOLEAN :
          IF ok
          THEN pc' = "readFile" /\ UNCHANGED <<loadErr, outcome, result>>
          ELSE Thrown("access")
    /\ UNCHANGED <<manifest, items, idx, licons, statLog, viewVars, copyVars>>

\* await fs.readFile(listFilePath), split and filter, and the loop up to the
\* first await fs.stat
ReadListFile ==
    /\ pc = "readFile"
    /\ \E ok \in BOOLEAN :
          IF ok
          THEN LET its == ManifestItems(manifest)
                   first == NextDot(its, 1)
               IN  /\ items' = its
                   /\ statLog' = [k \in 1..Len(its) |-> "none"]
                   /\ idx' = first
                   /\ loadErr' = loadErr
                   /\ IF first > Len(its)
                      THEN pc' = "returned" /\ outcome' = "resolved" /\ result' = licons
                      ELSE pc' = "stat" /\ UNCHANGED <<outcome, result>>
          ELSE Thrown("readFile") /\ UNCHANGED <<items, statLog, idx>>
    /\ UNCHANGED <<manifest, licons, viewVars, copyVars>>

\* await fs.stat(itemPath) settles with the kind of the entry on disk: the rest
\* of the loop body, and the loop up to the next await fs.stat
StatItemFound(st) ==
    LET itemPath == PathJoin(baseDir, items[idx])
        arr == IF st = "file"
               THEN ProcessFile(licons, items[idx], itemPath)
               ELSE licons
        next == NextDot(items, idx + 1)
    IN  /\ statLog' = [statLog EXCEPT ![idx] = st]
        /\ licons' = arr
        /\ idx' = next
        /\ loadErr' = loadErr
        /\ IF next > Len(items)
           THEN pc' = "returned" /\ outcome' = "resolved" /\ result' = arr
           ELSE pc' = "stat" /\ UNCHANGED <<outcome, result>>

\* await fs.stat(itemPath): the entry is not on disk and stat throws, or it is
\* there as a file or as a directory
StatItem ==
    /\ pc = "stat"
    /\ \/ /\ statLog' = [statLog EXCEPT ![idx] = "ENOENT"]
          /\ Thrown("stat")
          /\ UNCHANGED <<idx, licons>>
       \/ \E st \in {"file", "dir"} : StatItemFound(st)
    /\ UNCHANGED <<manifest, items, viewVars, copyVars>>

\* fault variant: no finally block
FetchIconsNoFinally(loading) == loading

\* finally { setIsLoading(false) }
FetchIconsFinally(loading) == FALSE

\* fetchIcons after await loadIconsData(): setIcons or setError, and the finally
FetchIcons ==
    /\ pc = "returned"
    /\ pc' = "done"
    /\ IF outcome = "resolved"
       THEN /\ icons' = result
            /\ setIconsCalls' = setIconsCalls + 1
            /\ error' = error
       ELSE /\ error' = "Failed to load icons data"
            /\ UNCHANGED <<icons, setIconsCalls>>
    /\ isLoading' = FetchIconsFinally(isLoading)
    /\ needsRender' = TRUE
    /\ UNCHANGED <<manifest, items, idx, licons, statLog, loadErr, outcome, result,
                   renders, effectPending, loadStarts, view, grid, errorToasts,
                   copyVars>>

NextLoad == Render \/ RunEffect \/ AccessBaseDir \/ ReadListFile \/ StatItem \/ FetchIcons

--------------------------------------------------------------------------
(* copyIconToClipboard *)

\* format.toUpperCase()
ToUpperCase(format) == IF format = "png" THEN "PNG" ELSE "SVG"

SuccessToast(format) ==
    [style |-> "Success",
     title |-> <<ToUpperCase(format), " icon copied to clipboard">>,
     message |-> "Paste it wherever you need."]

FailureToast(format) ==
    [style |-> "Failure",
     title |-> <<"Failed to copy ", ToUpperCase(format), " icon to clipboard">>,
     message |-> "The icon file might not exist or be accessible."]

\* fault variant: the file of the requested format is copied
CopyFileByFormat(icon, format) ==
    SubSeq(icon.path, 1, Len(icon.path) - 3) \o (IF format = "png" THEN PNG ELSE SVG)

\* Clipboard.copy({ file: icon.path })
CopyFile(icon, format) == icon.path

\* fault variant: the catch only logs
OnCopyErrorSilent(op, cause) ==
    [op EXCEPT !.st = "failed", !.cause = cause]

\* the catch block: one failure toast
OnCopyError(op, cause) ==
    [op EXCEPT !.st = "failed", !.cause = cause,
               !.toasts = Append(@, FailureToast(op.format))]

\* onAction of "Copy PNG" / "Copy SVG" on a rendered item: copyIconToClipboard
\* up to await fs.access(icon.path)
Click(i, format) ==
    /\ view = "grid"
    /\ Len(ops) < MaxClicks
    /\ i \in DOMAIN grid
    /\ format \in grid[i].actions
    /\ ops' = Append(ops, [icon |-> grid[i].icon, format |-> format, st |-> "access",
                           cause |-> "none", copied |-> <<>>, toasts |-> <<>>])
    /\ UNCHANGED <<loaderVars, viewVars, clipboard>>

\* await fs.access(icon.path) settles; on success Clipboard.copy is called
AccessIcon(k) ==
    /\ k \in DOMAIN ops
    /\ ops[k].st = "access"
    /\ \E ok \in BOOLEAN :
          ops' = [ops EXCEPT ![k] =
                     IF ok
                     THEN [@ EXCEPT !.st = "copy",
                                    !.copied = Append(@, CopyFile(ops[k].icon, ops[k].format))]
                     ELSE OnCopyError(@, "access")]
    /\ UNCHANGED <<loaderVars, viewVars, clipboard>>

\* await Clipboard.copy(...) settles: the host has written the clipboard, or failed
ClipboardCopy(k) ==
    /\ k \in DOMAIN ops
    /\ ops[k].st = "copy"
    /\ \E ok \in BOOLEAN :
          IF ok
          THEN /\ clipboard' = ops[k].copied[Len(ops[k].copied)]
               /\ ops' = [ops EXCEPT ![k].st = "done",
                                     ![k].toasts = Append(@, SuccessToast(ops[k].format))]
          ELSE /\ clipboard' = clipboard
               /\ ops' = [ops EXCEPT ![k] = OnCopyError(@, "clipboard")]
    /\ UNCHANGED <<loaderVars, viewVars>>

Next ==
    \/ NextLoad
    \/ \E i \in DOMAIN grid, format \in {"png", "svg"} : Click(i, format)
    \/ \E k \in DOMAIN ops : AccessIcon(k)
    \/ \E k \in DOMAIN ops : ClipboardCopy(k)

\* a session: a small catalog is loaded and icons are copied
Spec == Init /\ [][Next]_vars

\* the load alone, over every manifest of at most MaxItems lines
LoadSpec == InitLoad /\ [][NextLoad]_vars

\* the load with the event loop's guarantee: a pending render, effect, file
\* system answer or continuation is eventually run
LiveSpec == Init /\ [][NextLoad]_vars /\ WF_vars(NextLoad)

--------------------------------------------------------------------------
(* What a manifest entry says, read off the entry itself *)

EntryParts(k) == Split(items[k], "/")
EntryCategory(k) == EntryParts(k)[2]
EntryFilename(k) == EntryParts(k)[Len(EntryParts(k))]
EntryFormat(k) ==
    LET p == Split(EntryFilename(k), ".") IN p[Len(p)]
EntryName(k) ==
    LET p == Split(EntryFilename(k), ".") IN Join(SubSeq(p, 1, Len(p) - 1), ".")

\* fewer than 3 segments, or a filename with an empty name or an empty format
Malformed(k) ==
    \/ Len(EntryParts(k)) < 3
    \/ EntryName(k) = <<>>
    \/ EntryFormat(k) = <<>>

\* the classification of a category as the specification words it
Classification(category) ==
    CASE Includes(category, ARCH) -> "Architecture"
      [] ~Includes(category, ARCH) /\ Includes(category, RES) -> "Resource"
      [] ~Includes(category, ARCH) /\ ~Includes(category, RES) /\ Includes(category, CAT)
           -> "Category"
      [] OTHER -> "Architecture Group"

EntryTriple(k) == <<EntryName(k), EntryCategory(k), Classification(EntryCategory(k))>>
Triple(r) == <<r.name, r.category, r.type>>

\* the entries the pass has turned into the catalog so far: stat'ed as files, well formed
Processed == {k \in DOMAIN statLog : statLog[k] = "file" /\ ~Malformed(k)}
EntriesOf(r) == {k \in Processed : EntryTriple(k) = Triple(r)}

Min(S) == IF S = {} THEN 0 ELSE CHOOSE x \in S : \A y \in S : x <= y
FirstPos(r) == Min(EntriesOf(r))
FirstPosOfFormat(r, f) == Min({k \in EntriesOf(r) : EntryFormat(k) = f})

UniqueTriples(arr) ==
    \A i, j \in DOMAIN arr : i # j => Triple(arr[i]) # Triple(arr[j])

FormatsDistinct(r) ==
    /\ r.formats # <<>>
    /\ \A a, b \in DOMAIN r.formats : a # b => r.formats[a] # r.formats[b]

Loaded == pc \in {"returned", "done"}

--------------------------------------------------------------------------
(* The claims *)

\* C1: at every point of the load pass, and in the returned list and the
\* component's state, no two records share a (name, category, type) triple;
\* every record's formats are non-empty and without duplicates, and are exactly
\* the distinct formats of the processed entries of its triple; every processed
\* entry has exactly one record.
C1_OneRecordPerTriple ==
    /\ \A arr \in {licons, result, icons} :
          /\ UniqueTriples(arr)
          /\ \A i \in DOMAIN arr : FormatsDistinct(arr[i])
    /\ \A i \in DOMAIN licons :
          {licons[i].formats[a] : a \in DOMAIN licons[i].formats}
              = {EntryFormat(k) : k \in EntriesOf(licons[i])}
    /\ \A k \in Processed :
          Cardinality({i \in DOMAIN licons : Triple(licons[i]) = EntryTriple(k)}) = 1

\* C1 witness: a finished load in which two processed entries of one triple and
\* one format ended as a single record with that format once
C1_Witness ==
    /\ pc = "done"
    /\ \E i \in DOMAIN icons :
          /\ Cardinality(EntriesOf(icons[i])) >= 2
          /\ Len(icons[i].formats) = 1

\* C2: when the base directory cannot be accessed, or find.txt cannot be read
\* or holds nothing but white space, loadIconsData resolves with the empty
\* list; its promise is never rejected and the component's error is never set.
C2_FailedLoadIsEmpty ==
    /\ outcome # "rejected"
    /\ error = "null"
    /\ (Loaded /\ (loadErr \in {"access", "readFile"}
                   \/ \A c \in DOMAIN manifest : manifest[c] \in Whitespace))
          => (outcome = "resolved" /\ result = <<>>)

\* C2 witness: find.txt lists an icon but could not be read, and the load ended
C2_Witness ==
    /\ pc = "done"
    /\ loadErr = "readFile"
    /\ manifest = Text(<<LineEc2Png>>)
    /\ icons = <<>>

C3_SkipStep ==
    (pc = "stat" /\ Malformed(idx) /\ statLog'[idx] = "file")
        => /\ licons' = licons
           /\ loadErr' = "none"
           /\ outcome' # "rejected"
           /\ idx' = NextDot(items, idx + 1)
           /\ pc' = IF idx' > Len(items) THEN "returned" ELSE "stat"

C3_AllValidLoaded ==
    (Loaded /\ loadErr = "none")
        => \A k \in DOMAIN items :
              StartsWith(items[k], <<".">>)
                  => /\ statLog[k] # "none"
                     /\ (statLog[k] = "file" /\ ~Malformed(k))
                            => \E i \in DOMAIN result :
                                  /\ Triple(result[i]) = EntryTriple(k)
                                  /\ ArrayIncludes(result[i].formats, EntryFormat(k))

\* C3: an entry that is a file but has fewer than 3 segments, or an empty name
\* or format, leaves the records as they are, throws nothing, and the loop goes
\* on to the next entry; after a load without a file system error every
\* well-formed file entry is in the catalog with its format.
C3_MalformedEntrySkipped == [][C3_SkipStep]_vars /\ []C3_AllValidLoaded

\* C3 witness: a malformed file entry came first and the valid entry after it
\* is in the catalog
C3_Witness ==
    /\ pc = "done"
    /\ loadErr = "none"
    /\ \E k1, k2 \in DOMAIN items :
          /\ k1 < k2
          /\ statLog[k1] = "file" /\ Malformed(k1)
          /\ statLog[k2] = "file" /\ ~Malformed(k2)
    /\ Len(icons) = 1

C4_FailedOp ==
    \A k \in DOMAIN ops :
        /\ ops[k].st = "failed"
              => /\ Len(ops[k].toasts) = 1
                 /\ ops[k].toasts[1] = FailureToast(ops[k].format)
                 /\ ops[k].cause = "access" => ops[k].copied = <<>>
        /\ ops[k].st \in {"access", "copy"} => ops[k].toasts = <<>>

C4_FailStep ==
    \A k \in DOMAIN ops :
        (ops[k].st \in {"access", "copy"} /\ ops'[k].st = "failed")
            => (clipboard' = clipboard /\ icons' = icons /\ grid' = grid)

\* C4: a copy whose file does not exist ends with exactly one failure toast, no
\* success toast and no call of Clipboard.copy, and leaves the clipboard and the
\* catalog as they were; a copy whose clipboard write fails ends with exactly
\* one failure toast and no success toast, too.
C4_CopyFailure == []C4_FailedOp /\ [][C4_FailStep]_vars

\* C4 witness: one copy put a file on the clipboard, a later one failed on the
\* missing file and a third on the clipboard write, and the clipboard still
\* holds the first file
C4_Witness ==
    \E j, k, l \in DOMAIN ops :
        /\ j < k
        /\ ops[j].st = "done"
        /\ ops[k].st = "failed" /\ ops[k].cause = "access"
        /\ ops[l].st = "failed" /\ ops[l].cause = "clipboard"
        /\ ops[k].icon # ops[j].icon
        /\ clipboard = ops[j].icon.path

\* C5: when every triggered copy has finished with success, the clipboard holds
\* the file of the copy triggered last.
C5_LastClickWins ==
    (ops # <<>> /\ \A k \in DOMAIN ops : ops[k].st = "done")
        => clipboard = ops[Len(ops)].icon.path

\* C6: the type of every record follows from its category by case-sensitive
\* containment of "Arch", then "Res", then "Cat", the first match winning, and
\* "Architecture Group" when none is contained.
C6_TypeFromCategory ==
    \A i \in DOMAIN licons :
        LET c == licons[i].category
            t == licons[i].type
        IN  /\ Includes(c, ARCH) => t = "Architecture"
            /\ (~Includes(c, ARCH) /\ Includes(c, RES)) => t = "Resource"
            /\ (~Includes(c, ARCH) /\ ~Includes(c, RES) /\ Includes(c, CAT))
                  => t = "Category"
            /\ (~Includes(c, ARCH) /\ ~Includes(c, RES) /\ ~Includes(c, CAT))
                  => t = "Architecture Group"
            /\ c = ArchGroup1 => t = "Architecture"
            /\ c = archGroup => t = "Architecture Group"

\* C6 witness: a catalog with a category that contains "Arch", "Res" and "Cat"
\* next to one that contains "arch" in lower case only
C6_Witness ==
    /\ pc = "done"
    /\ \E i, j \in DOMAIN icons :
          /\ icons[i].category = ArchResCat /\ icons[i].type = "Architecture"
          /\ icons[j].category = archGroup /\ icons[j].type = "Architecture Group"

C7_Safe ==
    /\ loadStarts <= 1
    /\ setIconsCalls <= 1
    /\ ~isLoading => pc = "done"
    /\ pc = "done" => ~isLoading

C7_CatalogFixed ==
    /\ setIconsCalls >= 1 => icons' = icons
    /\ icons' # icons => setIconsCalls' = 1
    /\ (pc = "done" /\ ~needsRender) => grid' = grid

\* C7: the load is started once and never again; the loading indicator is
\* eventually off, and is off only once the load has completed; setIcons is
\* called at most once and the catalog, once set and rendered, never changes.
C7_LoadOnce ==
    /\ []C7_Safe
    /\ [][C7_CatalogFixed]_vars
    /\ <>(loadStarts = 1)
    /\ <>[](~isLoading /\ ~needsRender /\ loadStarts = 1)

\* C7 witness: the catalog is on screen after the second render, the indicator off
C7_Witness ==
    /\ pc = "done"
    /\ ~isLoading
    /\ renders = 2
    /\ loadStarts = 1
    /\ Len(grid) = 2

\* C8: records are in the order of the first entry of their triple; a record's
\* path is the absolute path of that first entry; its formats are in the order
\* of their first entries, the first entry's format first.
C8_FirstAppearanceOrder ==
    /\ \A i \in DOMAIN licons :
          LET r == licons[i]
          IN  /\ FirstPos(r) \in DOMAIN items
              /\ r.path = PathJoin(baseDir, items[FirstPos(r)])
              /\ r.formats[1] = EntryFormat(FirstPos(r))
              /\ \A a, b \in DOMAIN r.formats :
                    a < b => FirstPosOfFormat(r, r.formats[a])
                                 < FirstPosOfFormat(r, r.formats[b])
    /\ \A i, j \in DOMAIN licons :
          i < j => FirstPos(licons[i]) < FirstPos(licons[j])
    /\ Loaded => result = licons

\* C8 witness: a record made from two entries at different paths, svg first
C8_Witness ==
    /\ pc = "done"
    /\ items = <<LineEc2Svg, LineEc2Png48>>
    /\ Len(icons) = 1
    /\ icons[1].formats = <<SVG, PNG>>
    /\ icons[1].path = PathJoin(baseDir, LineEc2Svg)

\* C9: the file handed to Clipboard.copy is the record's path whatever the
\* format; two copies of one record hand over the same file; the format shows
\* in the toast's title only; every item offers both actions.
C9_FormatIgnored ==
    /\ \A k \in DOMAIN ops :
          /\ ops[k].copied \in {<<>>, <<ops[k].icon.path>>}
          /\ \E i \in DOMAIN icons : icons[i] = ops[k].icon
          /\ \A t \in DOMAIN ops[k].toasts :
                ToUpperCase(ops[k].format) \in
                    {ops[k].toasts[t].title[n] : n \in DOMAIN ops[k].toasts[t].title}
    /\ \A j, k \in DOMAIN ops :
          (ops[j].icon = ops[k].icon /\ ops[j].copied # <<>> /\ ops[k].copied # <<>>)
              => ops[j].copied = ops[k].copied
    /\ clipboard # <<>> => \E i \in DOMAIN icons : clipboard = icons[i].path
    /\ \A i \in DOMAIN grid : grid[i].actions = {"png", "svg"}

\* C9 witness: "Copy SVG" and "Copy PNG" on a record that has no svg both put
\* its png file on the clipboard
C9_Witness ==
    \E j, k \in DOMAIN ops :
        /\ ops[j].icon = ops[k].icon
        /\ ops[j].format = "png" /\ ops[k].format = "svg"
        /\ ops[j].st = "done" /\ ops[k].st = "done"
        /\ ops[k].icon.formats = <<PNG>>
        /\ clipboard = PathJoin(baseDir, LineEc2Png)

C10_StatFailStep ==
    (pc = "stat" /\ statLog'[idx] = "ENOENT")
        => /\ pc' = "returned"
           /\ outcome' = "resolved"
           /\ result' = licons
           /\ licons' = licons
           /\ idx' = idx

C10_PartialCatalog ==
    /\ error = "null"
    /\ (Loaded /\ loadErr = "stat")
          => /\ outcome = "resolved"
             /\ result = licons
             /\ \A k \in DOMAIN items : k > idx => statLog[k] = "none"
             /\ \A i \in DOMAIN result :
                   EntriesOf(result[i]) # {} /\ \A k \in EntriesOf(result[i]) : k < idx
    /\ (pc = "done" /\ loadErr = "stat") => icons = result

\* C10: when fs.stat of an entry fails, the loop stops there and the promise
\* resolves with the records built from the entries before it; it does not
\* reject and the component's error stays unset.
C10_StatFailureKeepsPartial == [][C10_StatFailStep]_vars /\ []C10_PartialCatalog

\* C10 witness: the second entry's file is missing and the catalog holds the
\* record of the first
C10_Witness ==
    /\ pc = "done"
    /\ loadErr = "stat"
    /\ idx = 2
    /\ Len(icons) = 1
    /\ error = "null"

==========================================================================
